---- MODULE Spec2Model ----
(***************************************************************************)
(* A model of LinksSpider (src/crawler.py): a Scrapy spider that walks a   *)
(* site's link graph, logs every page handed to parse() in                 *)
(* reports/scraped_pages.json and every classified failure in a log named  *)
(* after the origin carried by the failing request.                        *)
(*                                                                         *)
(* Strings are sequences of tokens.  "/" , "_" , "." and "?" are always    *)
(* tokens of their own, so that str.replace("/", "__"), str.startswith and *)
(* urlparse(...).path are computed on the text and not assumed.            *)
(***************************************************************************)
EXTENDS Integers, Sequences, FiniteSets, TLC

(* ---------------------------------------------------------------------- *)
(* Bounds                                                                  *)
(* ---------------------------------------------------------------------- *)

\* longest start_urls list that is tried
MaxSeeds == 2

\* how many callbacks are inside save_to_json at the same time
MaxWriters == 2

(* ---------------------------------------------------------------------- *)
(* Text helpers                                                            *)
(* ---------------------------------------------------------------------- *)

\* str.startswith(prefix)
StartsWith(s, prefix) ==
    /\ Len(prefix) <= Len(s)
    /\ SubSeq(s, 1, Len(prefix)) = prefix

\* str.endswith(suffix)
EndsWith(s, suffix) ==
    /\ Len(suffix) <= Len(s)
    /\ SubSeq(s, Len(s) - Len(suffix) + 1, Len(s)) = suffix

\* origin.replace("/", "__")
RECURSIVE ReplaceSlash(_)
ReplaceSlash(s) ==
    IF s = <<>> THEN <<>>
    ELSE (IF Head(s) = "/" THEN <<"_", "_">> ELSE <<Head(s)>>) \o ReplaceSlash(Tail(s))

\* the longest prefix of s that holds none of the tokens in stops
RECURSIVE TakeUntil(_, _)
TakeUntil(s, stops) ==
    IF s = <<>> \/ Head(s) \in stops THEN <<>>
    ELSE <<Head(s)>> \o TakeUntil(Tail(s), stops)

\* what is left of s from its first token in stops on
RECURSIVE DropUntil(_, _)
DropUntil(s, stops) ==
    IF s = <<>> \/ Head(s) \in stops THEN s
    ELSE DropUntil(Tail(s), stops)

(* ---------------------------------------------------------------------- *)
(* URLs                                                                    *)
(* ---------------------------------------------------------------------- *)

Scheme == <<"https:", "/", "/">>

\* text after "scheme://"
AfterScheme(url) == SubSeq(url, Len(Scheme) + 1, Len(url))

\* urlparse(url).netloc
Netloc(url) == TakeUntil(AfterScheme(url), {"/", "?", "#"})

\* a path that keeps the query string
UrlPathWithQuery(url) == DropUntil(AfterScheme(url), {"/", "?", "#"})

\* urlparse(url).path : from the first "/" after the host up to the query
UrlPath(url) == TakeUntil(DropUntil(AfterScheme(url), {"/", "?", "#"}), {"?", "#"})

ExampleCom  == <<"example", ".", "com">>
ExternalOrg == <<"external", ".", "org">>

RootUrl     == Scheme \o ExampleCom \o <<"/">>
AboutUrl    == Scheme \o ExampleCom \o <<"/", "about">>
BotUrl      == Scheme \o ExampleCom \o <<"/", "bot", "?", "x=1">>
ExternalUrl == Scheme \o ExternalOrg \o <<"/", "page">>
ShopUrl     == Scheme \o <<"shop", ".">> \o ExampleCom \o <<"/", "bot">>

\* the URLs of the modelled web
Urls == {RootUrl, AboutUrl, BotUrl, ExternalUrl, ShopUrl}

(* ---------------------------------------------------------------------- *)
(* Crawl configuration and the web that is crawled                         *)
(* ---------------------------------------------------------------------- *)

\* search_domains
search_domains == <<ExampleCom>>

\* the URLs that are tried as seeds: an internal page and an external page
SeedUrls == {RootUrl, ExternalUrl}

\* the start_urls lists that are tried: every list of 1..MaxSeeds of them
SeedLists == UNION {[1..n -> SeedUrls] : n \in 1..MaxSeeds}

\* the pattern of link_url.startswith(...) as the source has it
EmptyPrefix == <<>>

\* a pattern that names the bot-generated pages of the site
BotPrefix == Scheme \o ExampleCom \o <<"/", "bot">>

\* a pattern that names pages of another site
PartnerPrefix == Scheme \o ExternalOrg \o <<"/">>

\* the links LinkExtractor finds on each page, in document order
ScenarioWeb ==
    [u \in Urls |-> IF u = RootUrl THEN <<AboutUrl, ExternalUrl, BotUrl>> ELSE <<>>]

CyclicWeb ==
    [u \in Urls |->
        CASE u = RootUrl     -> <<AboutUrl, ExternalUrl>>
          [] u = AboutUrl    -> <<RootUrl, AboutUrl, ExternalUrl, BotUrl>>
          [] u = BotUrl      -> <<AboutUrl>>
          [] u = ExternalUrl -> <<RootUrl, AboutUrl>>
          [] OTHER           -> <<>>]

ChainWeb ==
    [u \in Urls |->
        CASE u = RootUrl -> <<BotUrl, ShopUrl>>
          [] u = BotUrl  -> <<AboutUrl>>
          [] u = ShopUrl -> <<ExternalUrl>>
          [] OTHER       -> <<>>]

\* the crawls that are tried, each a pattern, a web and a start_urls list; the
\* chain web is crawled from its root page
Sites ==
    ({EmptyPrefix, BotPrefix} \X {ScenarioWeb, CyclicWeb} \X SeedLists)
    \cup {<<PartnerPrefix, ChainWeb, <<RootUrl>>>>}

\* what the fetch engine hands to the callback of a request
Responses == [ok : {TRUE}, text : BOOLEAN, status : {200, 204}, type : {""}]

\* what the fetch engine hands to the errback of a request
Failures ==
    [ok : {FALSE}, text : {FALSE}, status : {404, 500}, type : {"HttpError"}]
    \cup
    [ok : {FALSE}, text : {FALSE}, status : {0},
     type : {"DNSLookupError", "TCPTimedOutError", "TimeoutError", "ConnectionRefusedError"}]

(* ---------------------------------------------------------------------- *)
(* State                                                                   *)
(* ---------------------------------------------------------------------- *)

VARIABLES
    start_urls,      \* configuration: the seed list
    exclude_prefix,  \* configuration: the pattern of the startswith test
    web,             \* the links of every page
    next_start,      \* position of the start_requests generator in start_urls
    pending,         \* requests yielded by the spider, not yet seen by the scheduler
    seen,            \* URLs the scheduler's duplicate filter has let through
    in_flight,       \* requests handed to the downloader, not yet answered
    reports,         \* the files under reports/ : file path -> sequence of lines
    fetches,         \* history: URL -> number of requests handed to the downloader
    finished,        \* history: the answered requests, each with its outcome
    disk,            \* file path -> the text on disk, for the callers of save_to_json
    writers          \* caller of save_to_json -> its position in the call

vars == <<start_urls, exclude_prefix, web, next_start, pending, seen, in_flight,
          reports, fetches, finished, disk, writers>>

config == <<start_urls, exclude_prefix, web>>

\* the state of the step-by-step calls of save_to_json
sink_io == <<disk, writers>>

(* ---------------------------------------------------------------------- *)
(* Record sink                                                             *)
(* ---------------------------------------------------------------------- *)

\* os.path.join('reports', filename)
ReportPath(filename) == <<"reports", "/">> \o filename

\* a sink that opens the file with mode 'w': the record replaces the file
save_to_json_truncating(files, data, filepath) ==
    [f \in DOMAIN files \cup {filepath} |-> IF f = filepath THEN <<data>> ELSE files[f]]

\* save_to_json: open(filepath, 'a'), one record, one newline
save_to_json(files, data, filepath) ==
    IF filepath \in DOMAIN files
    THEN [files EXCEPT ![filepath] = Append(@, data)]
    ELSE [f \in DOMAIN files \cup {filepath} |->
            IF f = filepath THEN <<data>> ELSE files[f]]

ScrapedPagesFile == <<"scraped", "_", "pages", ".json">>

save_scraped_page(files, page_url) ==
    save_to_json(files, [url |-> page_url], ReportPath(ScrapedPagesFile))

\* a file name in which each "/" has left a single "_"
ErrorFileSingleUnderscore(origin) ==
    [i \in 1..Len(origin) |-> IF origin[i] = "/" THEN "_" ELSE origin[i]] \o <<".json">>

\* the file name save_error_to_json derives from an origin
ErrorFile(origin) == ReplaceSlash(origin) \o <<".json">>

save_error_to_json(files, url, status, origin) ==
    save_to_json(files, [link |-> url, status |-> status], ReportPath(ErrorFile(origin)))

\* the lines of a file, none when it was never opened
Lines(files, filepath) == IF filepath \in DOMAIN files THEN files[filepath] ELSE <<>>

(* ---------------------------------------------------------------------- *)
(* Requests                                                                *)
(* ---------------------------------------------------------------------- *)

\* a request that bypasses the duplicate filter
UnfilteredRequest(url, callback, origin, page) ==
    [url |-> url, callback |-> callback, origin |-> origin, dont_filter |-> TRUE,
     page |-> page]

\* scrapy.Request(url, callback, errback=self.handle_error, meta={"origin": origin});
\* dont_filter is not passed, so the request is subject to the duplicate filter.
\* page is history: the URL of the page whose parse emitted it, <<>> for a seed.
Request(url, callback, origin, page) ==
    [url |-> url, callback |-> callback, origin |-> origin, dont_filter |-> FALSE,
     page |-> page]

\* meta origin of a seed request: f"start_{url}"
StartOrigin(url) == <<"start", "_">> \o url

(* ---------------------------------------------------------------------- *)
(* Link extraction                                                         *)
(* ---------------------------------------------------------------------- *)

\* the host of url is one of domains or a subdomain of one of them
IsFromAnyDomain(url, domains) ==
    \E i \in 1..Len(domains) :
        \/ Netloc(url) = domains[i]
        \/ EndsWith(Netloc(url), <<".">> \o domains[i])

\* LinkExtractor(allow_domains=self.search_domains).extract_links(response)
internal_links(links) ==
    SelectSeq(links, LAMBDA u : IsFromAnyDomain(u, search_domains))

\* an extractor that denies only the links whose host is one of the domains
external_links_other_host(links) ==
    SelectSeq(links, LAMBDA u : \A i \in 1..Len(search_domains) : Netloc(u) # search_domains[i])

\* LinkExtractor(deny_domains=self.search_domains).extract_links(response)
external_links(links) ==
    SelectSeq(links, LAMBDA u : ~IsFromAnyDomain(u, search_domains))

\* the links of a response; the body of a response that is no TextResponse
\* cannot be read, extract_links raises and the generator ends
ResponseLinks(request, response) ==
    IF response.text THEN web[request.url] ELSE <<>>

(* ---------------------------------------------------------------------- *)
(* Spider callbacks                                                        *)
(* ---------------------------------------------------------------------- *)

\* the branch of parse that logs an error instead of extracting links
IsRejected(response) == ~response.text /\ response.status # 200

\* a test that keeps every internal link
IsFollowedAlways(link_url) == TRUE

\* a test that lost its "not"
IsFollowedInverted(link_url) == StartsWith(link_url, exclude_prefix)

\* the test that keeps an internal link: not link_url.startswith(<pattern>)
IsFollowed(link_url) == ~StartsWith(link_url, exclude_prefix)

\* an external link that is given the recursive callback
ExternalCallbackParse == "parse"

\* callback=self.NO_CALLBACK of the requests for external links
ExternalCallback == "NO_CALLBACK"

\* a parse whose error branch names the log after the path of the response
ParseReportsOwnPath(files, request, response) ==
    LET saved == save_scraped_page(files, request.url)
    IN  IF IsRejected(response)
        THEN save_error_to_json(saved, request.url,
                                "status " \o ToString(response.status),
                                UrlPath(request.url))
        ELSE saved

\* the files after parse(response)
ParseReports(files, request, response) ==
    LET saved == save_scraped_page(files, request.url)
    IN  IF IsRejected(response)
        THEN save_error_to_json(saved, request.url,
                                "status " \o ToString(response.status), request.origin)
        ELSE saved

\* the requests parse(response) yields, in order
ParseRequests(request, response) ==
    IF IsRejected(response) THEN <<>>
    ELSE LET origin   == UrlPath(request.url)
             links    == ResponseLinks(request, response)
             external == external_links(links)
             internal == SelectSeq(internal_links(links), IsFollowed)
         IN  [i \in 1..Len(external) |->
                 Request(external[i], ExternalCallback, origin, request.url)]
             \o
             [i \in 1..Len(internal) |->
                 Request(internal[i], "parse", origin, request.url)]

\* failure.check(...) of handle_error, and the status it logs; "" when no branch matches
ErrorStatus(failure) ==
    CASE failure.type = "HttpError" -> "error " \o ToString(failure.status)
      [] failure.type = "DNSLookupError" -> "error DNSLookupError"
      [] failure.type \in {"TCPTimedOutError", "TimeoutError"} -> "error TimeoutError"
      [] OTHER -> ""

\* an errback that names the log after the failing request's own path
HandleErrorReportsOwnPath(files, request, failure) ==
    LET origin == UrlPath(request.url)
        status == ErrorStatus(failure)
    IN  IF status = "" THEN files
        ELSE save_error_to_json(files, request.url, status, origin)

\* the files after handle_error(failure)
HandleErrorReports(files, request, failure) ==
    LET origin == request.origin
        status == ErrorStatus(failure)
    IN  IF status = "" THEN files
        ELSE save_error_to_json(files, request.url, status, origin)

\* the callers of save_to_json that are followed step by step
Writers == 1..MaxWriters

\* a caller that has not called save_to_json yet
Idle == [pc |-> "idle", data |-> [url |-> <<>>], filepath |-> <<>>, buffer |-> <<>>]

(* ---------------------------------------------------------------------- *)
(* Actions                                                                 *)
(* ---------------------------------------------------------------------- *)

Init ==
    /\ \E site \in Sites :
          exclude_prefix = site[1] /\ web = site[2] /\ start_urls = site[3]
    /\ next_start = 1
    /\ pending = <<>>
    /\ seen = {}
    /\ in_flight = {}
    /\ reports = [f \in {} |-> <<>>]
    /\ fetches = [u \in Urls |-> 0]
    /\ finished = {}
    /\ disk = [f \in {} |-> <<>>]
    /\ writers = [w \in Writers |-> Idle]

\* start_requests: the generator yields the request of the next seed
StartRequests ==
    /\ next_start <= Len(start_urls)
    /\ LET url == start_urls[next_start]
       IN  pending' = Append(pending, Request(url, "parse", StartOrigin(url), <<>>))
    /\ next_start' = next_start + 1
    /\ UNCHANGED <<config, seen, in_flight, reports, fetches, finished, sink_io>>

\* the scheduler takes the oldest yielded request: it is dropped when its URL was
\* let through before and the request does not ask to bypass the filter
Schedule ==
    /\ pending # <<>>
    /\ LET r == Head(pending)
       IN  IF r.dont_filter \/ r.url \notin seen
           THEN /\ seen' = seen \cup {r.url}
                /\ in_flight' = in_flight \cup {r}
                /\ fetches' = [fetches EXCEPT ![r.url] = @ + 1]
           ELSE UNCHANGED <<seen, in_flight, fetches>>
    /\ pending' = Tail(pending)
    /\ UNCHANGED <<config, next_start, reports, finished, sink_io>>

\* a response reaches parse
Parse ==
    \E r \in in_flight, response \in Responses :
        /\ r.callback = "parse"
        /\ in_flight' = in_flight \ {r}
        /\ reports' = ParseReports(reports, r, response)
        /\ pending' = pending \o ParseRequests(r, response)
        /\ finished' = finished \cup {[request |-> r, outcome |-> response]}
        /\ UNCHANGED <<config, next_start, seen, fetches, sink_io>>

\* a response reaches NO_CALLBACK, which does nothing
NoCallback ==
    \E r \in in_flight, response \in Responses :
        /\ r.callback = "NO_CALLBACK"
        /\ in_flight' = in_flight \ {r}
        /\ finished' = finished \cup {[request |-> r, outcome |-> response]}
        /\ UNCHANGED <<config, next_start, pending, seen, reports, fetches, sink_io>>

\* a failure reaches handle_error
HandleError ==
    \E r \in in_flight, failure \in Failures :
        /\ in_flight' = in_flight \ {r}
        /\ reports' = HandleErrorReports(reports, r, failure)
        /\ finished' = finished \cup {[request |-> r, outcome |-> failure]}
        /\ UNCHANGED <<config, next_start, pending, seen, fetches, sink_io>>

Next == StartRequests \/ Schedule \/ Parse \/ NoCallback \/ HandleError

Spec == Init /\ [][Next]_vars

\* the fetch engine answers a request
Answer == Parse \/ NoCallback \/ HandleError

\* The engine keeps pulling start_requests, keeps passing yielded requests to the
\* scheduler, and answers every request it was handed.
FairSpec ==
    /\ Spec
    /\ WF_vars(StartRequests)
    /\ WF_vars(Schedule)
    /\ WF_vars(Answer)

(* ---------------------------------------------------------------------- *)
(* save_to_json step by step, for callers that overlap                     *)
(* ---------------------------------------------------------------------- *)

\* the text json.dump(data, f) writes
JsonText(data) ==
    IF "link" \in DOMAIN data
    THEN <<"{", "link", ":", "\"">> \o data.link
         \o <<"\"", ",", "status", ":", "\"", data.status, "\"", "}">>
    ELSE <<"{", "url", ":", "\"">> \o data.url \o <<"\"", "}">>

\* a file object that passes every write straight to the file
f_write_unbuffered(buffer, text) == [buffer |-> <<>>, out |-> buffer \o text]

\* f.write(text) on the file object of open(filepath, 'a'): the text is kept in
\* the buffer of this file object until the file is closed
f_write(buffer, text) == [buffer |-> buffer \o text, out |-> <<>>]

\* the calls of save_to_json that are tried: save_scraped_page(url) and
\* save_error_to_json(url, "error 404", "/")
SinkCalls ==
    {[data |-> [url |-> u], filepath |-> ReportPath(ScrapedPagesFile)] :
        u \in {RootUrl, AboutUrl}}
    \cup
    {[data |-> [link |-> u, status |-> "error 404"],
      filepath |-> ReportPath(ErrorFile(<<"/">>))] : u \in {AboutUrl, ExternalUrl}}

\* the crawl, which stands still while the calls of save_to_json are followed
crawl == <<config, next_start, pending, seen, in_flight, reports, fetches, finished>>

\* text reaches the end of the file (mode 'a')
AppendToDisk(filepath, text) ==
    [f \in DOMAIN disk \cup {filepath} |-> Lines(disk, f) \o (IF f = filepath THEN text ELSE <<>>)]

\* with open(filepath, 'a') as f: the file exists from now on
Open(w) ==
    /\ writers[w].pc = "idle"
    /\ \E call \in SinkCalls :
          /\ writers' = [writers EXCEPT ![w] =
                [pc |-> "open", data |-> call.data, filepath |-> call.filepath,
                 buffer |-> <<>>]]
          /\ disk' = AppendToDisk(call.filepath, <<>>)
    /\ UNCHANGED crawl

\* json.dump(data, f)
Dump(w) ==
    /\ writers[w].pc = "open"
    /\ LET written == f_write(writers[w].buffer, JsonText(writers[w].data))
       IN  /\ writers' = [writers EXCEPT ![w].pc = "dumped", ![w].buffer = written.buffer]
           /\ disk' = AppendToDisk(writers[w].filepath, written.out)
    /\ UNCHANGED crawl

\* f.write('\n')
WriteNewline(w) ==
    /\ writers[w].pc = "dumped"
    /\ LET written == f_write(writers[w].buffer, <<"\n">>)
       IN  /\ writers' = [writers EXCEPT ![w].pc = "written", ![w].buffer = written.buffer]
           /\ disk' = AppendToDisk(writers[w].filepath, written.out)
    /\ UNCHANGED crawl

\* the end of the with block: the buffer is flushed in one append, the file closed
Close(w) ==
    /\ writers[w].pc = "written"
    /\ writers' = [writers EXCEPT ![w].pc = "closed", ![w].buffer = <<>>]
    /\ disk' = AppendToDisk(writers[w].filepath, writers[w].buffer)
    /\ UNCHANGED crawl

SinkInit ==
    /\ start_urls = <<RootUrl>>
    /\ exclude_prefix = EmptyPrefix
    /\ web = ScenarioWeb
    /\ next_start = 1
    /\ pending = <<>>
    /\ seen = {}
    /\ in_flight = {}
    /\ reports = [f \in {} |-> <<>>]
    /\ fetches = [u \in Urls |-> 0]
    /\ finished = {}
    /\ disk = [f \in {} |-> <<>>]
    /\ writers = [w \in Writers |-> Idle]

SinkNext == \E w \in Writers : Open(w) \/ Dump(w) \/ WriteNewline(w) \/ Close(w)

\* callers of save_to_json whose steps interleave in any order
SinkSpec == SinkInit /\ [][SinkNext]_vars

(* ---------------------------------------------------------------------- *)
(* Observations used by the properties                                     *)
(* ---------------------------------------------------------------------- *)

\* the lines of reports/scraped_pages.json
VisitsLog == Lines(reports, ReportPath(ScrapedPagesFile))

\* how many visit records name url
VisitCount(url) == Cardinality({i \in 1..Len(VisitsLog) : VisitsLog[i] = [url |-> url]})

\* the places <<file, line number>> of the error records (records with a link field)
ErrorPlaces ==
    {p \in UNION {{<<f, i>> : i \in 1..Len(reports[f])} : f \in DOMAIN reports} :
        "link" \in DOMAIN reports[p[1]][p[2]]}

\* how many error records, over all logs, name url as their link
ErrorCount(url) ==
    Cardinality({p \in ErrorPlaces : reports[p[1]][p[2]].link = url})

\* every request the spider has yielded and that is still known
AllRequests ==
    {pending[i] : i \in 1..Len(pending)} \cup in_flight \cup {f.request : f \in finished}

Seeds == {start_urls[i] : i \in 1..Len(start_urls)}

IsInternal(url) == IsFromAnyDomain(url, search_domains)

\* the pages whose response reached parse and had its links extracted
ExpandedPages ==
    {f.request.url : f \in {g \in finished :
        g.request.callback = "parse" /\ g.outcome.ok /\ g.outcome.text}}

\* url was found as a link on a page whose links were extracted
IsDiscovered(url) ==
    \E page \in ExpandedPages : \E i \in 1..Len(web[page]) : web[page][i] = url

\* nothing is left to do
Quiescent == next_start > Len(start_urls) /\ pending = <<>> /\ in_flight = {}

(* ---------------------------------------------------------------------- *)
(* C1                                                                      *)
(* ---------------------------------------------------------------------- *)

\* C1: over a whole run at most one request per URL is handed to the downloader,
\* however many pages link to the URL and however the callbacks that discover it
\* interleave.
C1_AtMostOneFetchPerUrl == \A u \in Urls : fetches[u] <= 1

\* a URL found on two different pages: it was fetched once for the first
\* discovery while the second waits at the scheduler
C1_Witness ==
    \E i \in 1..Len(pending) : \E r \in in_flight \cup {f.request : f \in finished} :
        /\ r.url = pending[i].url
        /\ r.page # pending[i].page
        /\ r.page # <<>> /\ pending[i].page # <<>>
        /\ fetches[r.url] = 1

(* ---------------------------------------------------------------------- *)
(* C2                                                                      *)
(* ---------------------------------------------------------------------- *)

\* the requests that were answered with a response (status 2xx)
Fetched == {f \in finished : f.outcome.ok}

IsFailed(f) == ~f.outcome.ok \/ IsRejected(f.outcome)

\* C3: every visit record names a page whose fetch succeeded, that is, did not
\* end in the Failed state; a request that ended in the Failed state (its
\* response was neither text nor 200, or its errback was called) has no visit
\* record, so none has a visit record next to an error record.
C3_VisitsOnlyForSuccessfulFetches ==
    /\ \A i \in 1..Len(VisitsLog) :
          \E f \in Fetched :
              f.request.url = VisitsLog[i].url /\ ~IsFailed(f)
    /\ \A f \in finished :
          IsFailed(f) => VisitCount(f.request.url) = 0
    /\ \A f \in finished :
          ~(VisitCount(f.request.url) > 0 /\ ErrorCount(f.request.url) > 0)

(* ---------------------------------------------------------------------- *)
(* C4                                                                      *)
(* ---------------------------------------------------------------------- *)

\* how often token t occurs in s
Occurrences(s, t) == Cardinality({i \in 1..Len(s) : s[i] = t})

\* name is origin with every "/" turned into "__": it holds no "/", the other
\* tokens stay in order, and each "/" has left two "_"
IsFlattened(name, origin) ==
    /\ Occurrences(name, "/") = 0
    /\ SelectSeq(name, LAMBDA t : t # "_") = SelectSeq(origin, LAMBDA t : t \notin {"/", "_"})
    /\ Occurrences(name, "_") = Occurrences(origin, "_") + 2 * Occurrences(origin, "/")

\* the status the table of failure categories gives
TableStatus(failure) ==
    CASE failure.type = "HttpError" /\ failure.status = 404 -> "error 404"
      [] failure.type = "HttpError" /\ failure.status = 500 -> "error 500"
      [] failure.type = "DNSLookupError" -> "error DNSLookupError"
      [] failure.type = "TCPTimedOutError" -> "error TimeoutError"
      [] failure.type = "TimeoutError" -> "error TimeoutError"
      [] OTHER -> "none"

\* the failures that are an HTTP error, a DNS lookup failure or a timeout
Classified == {f \in finished : ~f.outcome.ok /\ TableStatus(f.outcome) # "none"}

\* the log of the root page "/"
RootLog == <<"reports", "/", "_", "_", ".json">>

\* C4: for every failed request for link l with origin o that is an HTTP error, a
\* DNS lookup failure or a timeout, the record {link: l, status: s} is in the log
\* whose name is o with every "/" replaced by "__", plus ".json", with s as the
\* table gives it; a failure whose origin is the root page "/" is in the log "__".
C4_ErrorRecordInOriginLog ==
    \A f \in Classified :
        /\ \E file \in DOMAIN reports :
              /\ Len(file) >= 3
              /\ SubSeq(file, 1, 2) = <<"reports", "/">>
              /\ file[Len(file)] = ".json"
              /\ IsFlattened(SubSeq(file, 3, Len(file) - 1), f.request.origin)
              /\ \E i \in 1..Len(reports[file]) :
                    reports[file][i] =
                        [link |-> f.request.url, status |-> TableStatus(f.outcome)]
        /\ f.request.origin = <<"/">> =>
              /\ RootLog \in DOMAIN reports
              /\ \E i \in 1..Len(reports[RootLog]) :
                    reports[RootLog][i] =
                        [link |-> f.request.url, status |-> TableStatus(f.outcome)]

\* a link found on the root page has timed out and its record is in the log "__"
C4_Witness ==
    \E f \in Classified :
        /\ f.request.page = RootUrl
        /\ f.outcome.type \in {"TCPTimedOutError", "TimeoutError"}
        /\ RootLog \in DOMAIN reports
        /\ \E i \in 1..Len(reports[RootLog]) :
              reports[RootLog][i] =
                  [link |-> f.request.url, status |-> "error TimeoutError"]

(* ---------------------------------------------------------------------- *)
(* C5                                                                      *)
(* ---------------------------------------------------------------------- *)

\* the requests whose errback was called
Errbacks == {f \in finished : ~f.outcome.ok}

\* C5: every failure handed to the errback, of any category (also one that is
\* no HTTP error, no DNS lookup failure and no timeout), has left exactly one
\* error record.
C5_EveryFailureRecorded ==
    \A f \in Errbacks : ErrorCount(f.request.url) = 1

(* ---------------------------------------------------------------------- *)
(* C6                                                                      *)
(* ---------------------------------------------------------------------- *)

\* the path component of each page of the web
PathOfPage(page) ==
    CASE page = RootUrl     -> <<"/">>
      [] page = AboutUrl    -> <<"/", "about">>
      [] page = BotUrl      -> <<"/", "bot">>
      [] page = ExternalUrl -> <<"/", "page">>
      [] page = ShopUrl     -> <<"/", "bot">>

\* the answered requests for which an error record was written: the classified
\* failures and the responses parse rejected
ErrorLogged ==
    Classified \cup
    {f \in finished : f.outcome.ok /\ f.request.callback = "parse" /\ IsRejected(f.outcome)}

\* the log named after origin holds an error record for url
InLogOf(origin, url) ==
    LET log == Lines(reports, ReportPath(ErrorFile(origin)))
    IN  \E i \in 1..Len(log) : "link" \in DOMAIN log[i] /\ log[i].link = url

\* C6 as stated: for every error record, those of failing seeds included, the
\* origin that names its log is the path of the page on which the failing link
\* was found, and never comes from the failing link's own URL.
C6_OriginIsPathOfLinkingPage ==
    \A f \in ErrorLogged :
        /\ f.request.page # <<>>
        /\ f.request.origin = PathOfPage(f.request.page)
        /\ InLogOf(PathOfPage(f.request.page), f.request.url)

\* C6 (amended): for every error record of a request that parse emitted, the origin
\* that names its log is the path of the page on which the failing link was
\* found; for the error record of a seed's start request the origin is "start_"
\* followed by the seed's own URL.
C6_OriginIsPathOfLinkingPageOrStart ==
    \A f \in ErrorLogged :
        LET expected == IF f.request.page = <<>>
                        THEN <<"start", "_">> \o f.request.url
                        ELSE PathOfPage(f.request.page)
        IN  /\ f.request.origin = expected
            /\ InLogOf(expected, f.request.url)

\* error records exist for a link found on the root page and for a seed
C6_Witness ==
    /\ \E f \in ErrorLogged :
          /\ f.request.page = RootUrl
          /\ f.request.url = AboutUrl
          /\ InLogOf(<<"/">>, AboutUrl)
    /\ \E f \in ErrorLogged :
          f.request.page = <<>> /\ InLogOf(<<"start", "_">> \o f.request.url, f.request.url)

(* ---------------------------------------------------------------------- *)
(* C7                                                                      *)
(* ---------------------------------------------------------------------- *)

\* url matches the exclusion prefix
IsExcluded(url) == StartsWith(url, exclude_prefix)

\* nothing was ever fetched or written for url
Untouched(url) == fetches[url] = 0 /\ VisitCount(url) = 0 /\ ErrorCount(url) = 0

\* C7 as stated: a discovered link that starts with the exclusion prefix, internal
\* or external, is never dispatched and has no visit record and no error record
\* (a URL that is itself a seed is left aside: its start request is no discovery).
C7_ExcludedLinksUntouched ==
    \A u \in Urls :
        (IsDiscovered(u) /\ IsExcluded(u) /\ u \notin Seeds) => Untouched(u)

\* C7 (amended): parse yields no request for an internal link that starts with the
\* exclusion prefix, so such a link, unless it is also a seed, is never dispatched
\* and has no visit record and no error record; external links are not tested
\* against the prefix.
C7_ExcludedInternalLinksUntouched ==
    /\ \A r \in AllRequests :
          (r.page # <<>> /\ IsInternal(r.url)) => ~IsExcluded(r.url)
    /\ \A u \in Urls :
          (IsDiscovered(u) /\ IsInternal(u) /\ IsExcluded(u) /\ u \notin Seeds)
              => Untouched(u)

\* the crawl is over, /bot?x=1 was found on a page under the prefix
\* https://example.com/bot, and nothing was fetched or written for it
C7_Witness ==
    /\ exclude_prefix = BotPrefix
    /\ Quiescent
    /\ IsDiscovered(BotUrl) /\ BotUrl \notin Seeds
    /\ Untouched(BotUrl)
    /\ fetches[AboutUrl] = 1

(* ---------------------------------------------------------------------- *)
(* C8                                                                      *)
(* ---------------------------------------------------------------------- *)

\* url is an internal link that the exclusion prefix does not match
IsEligible(url) == IsInternal(url) /\ ~IsExcluded(url)

TextOk == [ok |-> TRUE, text |-> TRUE, status |-> 200, type |-> ""]

\* seed "/", which links to /about, to an external page and to an excluded page;
\* the crawl is over and every fetch was answered 200 with text
ScenarioOver ==
    /\ start_urls = <<RootUrl>>
    /\ web = ScenarioWeb
    /\ exclude_prefix = BotPrefix
    /\ Quiescent
    /\ \A f \in finished : f.outcome = TextOk

\* every eligible link of an expanded page is dispatched already or waits at the
\* scheduler with the parse callback; internal pages are only ever requested with
\* the parse callback; a response that reaches parse has its visit record; and
\* the scenario ends as described
C8_Dispatched ==
    /\ \A page \in ExpandedPages : \A i \in 1..Len(web[page]) :
          IsEligible(web[page][i]) =>
              \/ web[page][i] \in seen
              \/ \E j \in 1..Len(pending) :
                    /\ pending[j].url = web[page][i]
                    /\ pending[j].callback = "parse"
                    /\ pending[j].page = page
    /\ \A r \in AllRequests : IsInternal(r.url) => r.callback = "parse"
    /\ \A f \in Fetched : f.request.callback = "parse" => VisitCount(f.request.url) = 1
    /\ ScenarioOver =>
          /\ VisitsLog = <<[url |-> RootUrl], [url |-> AboutUrl]>>
          /\ fetches[ExternalUrl] = 1
          /\ \E f \in finished :
                f.request.url = ExternalUrl /\ f.request.callback = "NO_CALLBACK"
          /\ Untouched(BotUrl)

\* url was answered, and if it was answered with a response it has its visit
\* record and the eligible links of a text response are dispatched or waiting
AnsweredAndExpanded(url) ==
    \E f \in finished :
        /\ f.request.url = url
        /\ f.outcome.ok => VisitCount(url) = 1
        /\ (f.outcome.ok /\ f.outcome.text) => url \in ExpandedPages

\* C8: every internal link that the exclusion prefix does not match and that is
\* found on a successfully visited page is dispatched, unless it was dispatched
\* before, with the parse callback, so that it is eventually fetched and, if the
\* fetch succeeds, has a visit record and its own links expanded; the scenario
\* with seed "/" ends with visit records for "/" and "/about", one fetch-only
\* dispatch of the external link and nothing for the excluded link.
C8_EligibleLinksAreCrawled ==
    /\ []C8_Dispatched
    /\ \A u \in Urls :
          (IsDiscovered(u) /\ IsEligible(u)) ~> (fetches[u] = 1 /\ AnsweredAndExpanded(u))

\* the scenario is over with its two visit records
C8_Witness ==
    /\ ScenarioOver
    /\ VisitsLog = <<[url |-> RootUrl], [url |-> AboutUrl]>>
    /\ fetches[ExternalUrl] = 1

(* ---------------------------------------------------------------------- *)
(* C9                                                                      *)
(* ---------------------------------------------------------------------- *)

\* C9: every visit record is for a seed or an internal URL; the request parse
\* yields for an external link carries NO_CALLBACK, and a response to such a
\* request adds no visit record and no error record and is never the page of a
\* further request.
C9_ExternalLinksFetchOnly ==
    /\ \A i \in 1..Len(VisitsLog) :
          VisitsLog[i].url \in Seeds \/ IsInternal(VisitsLog[i].url)
    /\ \A r \in AllRequests :
          (r.page # <<>> /\ ~IsInternal(r.url)) => r.callback = "NO_CALLBACK"
    /\ \A f \in Fetched :
          f.request.callback = "NO_CALLBACK" =>
              /\ VisitCount(f.request.url) = 0
              /\ ErrorCount(f.request.url) = 0
              /\ \A r \in AllRequests : r.page # f.request.url

\* the external page, which links to the root page, was fetched once with
\* NO_CALLBACK and the crawl is over
C9_Witness ==
    /\ Quiescent
    /\ web = CyclicWeb
    /\ fetches[ExternalUrl] = 1
    /\ \E f \in Fetched :
          /\ f.request.url = ExternalUrl
          /\ f.request.callback = "NO_CALLBACK"
          /\ f.outcome = TextOk
    /\ VisitCount(ExternalUrl) = 0

(* ---------------------------------------------------------------------- *)
(* C10                                                                     *)
(* ---------------------------------------------------------------------- *)

\* a request for url has ended in the Failed state
HasFailed(url) == \E f \in finished : f.request.url = url /\ IsFailed(f)

\* a step in which a URL that has failed is not handed to the downloader again,
\* and in which an errback call yields no request
NoRedispatchStep ==
    /\ \A u \in Urls : HasFailed(u) => fetches'[u] = fetches[u]
    /\ (\E f \in finished' \ finished : ~f.outcome.ok) =>
          (pending' = pending /\ fetches' = fetches /\ seen' = seen)

\* C10: once a request for URL u has reached the Failed state, u is never
\* dispatched again: the failure callback emits no request, and a later discovery
\* of u as a link on another page does not dispatch it again.
C10_FailedNeverRedispatched == [][NoRedispatchStep]_vars

\* a URL has failed and a later discovery of it on a page waits at the scheduler
C10_Witness ==
    \E f \in finished : \E i \in 1..Len(pending) :
        /\ ~f.outcome.ok
        /\ pending[i].url = f.request.url
        /\ pending[i].page # <<>>
        /\ pending[i] # f.request
        /\ fetches[f.request.url] = 1

(* ---------------------------------------------------------------------- *)
(* C11                                                                     *)
(* ---------------------------------------------------------------------- *)

RECURSIVE SumOver(_, _)
\* the sum of count[u] over the URLs of set
SumOver(count, set) ==
    IF set = {} THEN 0
    ELSE LET u == CHOOSE x \in set : TRUE
         IN  count[u] + SumOver(count, set \ {u})

\* the requests handed to the downloader so far
TotalFetches == SumOver(fetches, Urls)

\* C11: on any finite link graph, cycles and self-links included, and under an
\* engine that eventually completes every request it dispatched, the crawl does
\* a bounded amount of work (never more fetches than the graph has URLs) and
\* eventually reaches, and stays in, a state with no request in flight and no
\* new request to emit.
C11_CrawlTerminates ==
    /\ [](TotalFetches <= Cardinality(Urls))
    /\ <>[]Quiescent

\* the crawl of the web with a cycle and a self-link is over: the page that links
\* to itself and back to the root had its links extracted
C11_Witness ==
    /\ Quiescent
    /\ web = CyclicWeb
    /\ exclude_prefix = BotPrefix
    /\ {RootUrl, AboutUrl} \subseteq ExpandedPages
    /\ fetches[ExternalUrl] = 1
    /\ TotalFetches = 3

(* ---------------------------------------------------------------------- *)
(* C12                                                                     *)
(* ---------------------------------------------------------------------- *)

\* filepath is the error log of origin: reports/<origin with "/" as "__">.json
IsErrorLogOf(filepath, origin) ==
    /\ Len(filepath) >= 3
    /\ SubSeq(filepath, 1, 2) = <<"reports", "/">>
    /\ filepath[Len(filepath)] = ".json"
    /\ IsFlattened(SubSeq(filepath, 3, Len(filepath) - 1), origin)

\* a step in which an errback call leaves everything as it was, except that the
\* error log of the failed request's origin may have gained one record for it
FailureFrameStep ==
    \A f \in finished' \ finished :
        ~f.outcome.ok =>
            /\ pending' = pending
            /\ seen' = seen
            /\ fetches' = fetches
            /\ next_start' = next_start
            /\ in_flight' = in_flight \ {f.request}
            /\ VisitsLog' = VisitsLog
            /\ DOMAIN reports \subseteq DOMAIN reports'
            /\ \A filepath \in DOMAIN reports' :
                  \/ filepath \in DOMAIN reports /\ reports'[filepath] = reports[filepath]
                  \/ /\ IsErrorLogOf(filepath, f.request.origin)
                     /\ reports'[filepath] =
                            Append(Lines(reports, filepath),
                                   [link |-> f.request.url,
                                    status |-> TableStatus(f.outcome)])

\* C12: handling a failure changes nothing except the error log of that
\* failure's origin: the visits log, every other error log and the set of
\* dispatched URLs are unchanged and no request is emitted.
C12_FailureChangesOnlyOriginLog == [][FailureFrameStep]_vars

\* two failures with different origins were handled next to a visit record: each
\* has its record in its own log, and the visit record is still there
C12_Witness ==
    \E f, g \in Classified :
        /\ f.request.origin = <<"/">>
        /\ g.request.origin = StartOrigin(ExternalUrl)
        /\ InLogOf(f.request.origin, f.request.url)
        /\ InLogOf(g.request.origin, g.request.url)
        /\ VisitCount(RootUrl) = 1
        /\ Cardinality(DOMAIN reports) = 3

(* ---------------------------------------------------------------------- *)
(* C13                                                                     *)
(* ---------------------------------------------------------------------- *)

RECURSIVE IsCompleteLines(_, _)
\* text is made of whole lines, each the JSON text of one of records and "\n"
IsCompleteLines(text, records) ==
    \/ text = <<>>
    \/ \E data \in records :
          LET line == JsonText(data) \o <<"\n">>
          IN  /\ StartsWith(text, line)
              /\ IsCompleteLines(SubSeq(text, Len(line) + 1, Len(text)), records)

\* the callers that are in, or through, a call of save_to_json for filepath
CallersOf(filepath) == {w \in Writers : writers[w].pc # "idle" /\ writers[w].filepath = filepath}

\* C13: when several callbacks append to the same log file at the same time,
\* every line of the file is exactly one complete record: the JSON text of a
\* record and its newline are never interleaved with the text of another
\* record, and the file holds one line per finished call.
C13_NoTornRecords ==
    \A filepath \in DOMAIN disk :
        /\ IsCompleteLines(disk[filepath], {writers[w].data : w \in CallersOf(filepath)})
        /\ Occurrences(disk[filepath], "\n") =
              Cardinality({w \in CallersOf(filepath) : writers[w].pc = "closed"})

\* one caller has finished its append to the visits log while another, which
\* records a different page, is between its json.dump and the close of the file
C13_Witness ==
    \E v, w \in Writers :
        /\ writers[v].pc = "closed"
        /\ writers[w].pc = "written"
        /\ writers[v].filepath = writers[w].filepath
        /\ writers[v].data # writers[w].data
        /\ writers[w].buffer # <<>>
        /\ disk[writers[v].filepath] = JsonText(writers[v].data) \o <<"\n">>

(* ---------------------------------------------------------------------- *)
(* C14                                                                     *)
(* ---------------------------------------------------------------------- *)

\* the number of records in all the files
TotalRecords(files) == SumOver([f \in DOMAIN files |-> Len(files[f])], DOMAIN files)

\* the calls of save_scraped_page and save_error_to_json made for an answer
SaveCalls(f) ==
    CASE f.outcome.ok /\ f.request.callback = "parse" ->
            IF f.outcome.text \/ f.outcome.status = 200 THEN 1 ELSE 2
      [] f.outcome.ok /\ f.request.callback # "parse" -> 0
      [] OTHER -> IF TableStatus(f.outcome) = "none" THEN 0 ELSE 1

\* a step in which no record of any log is changed or removed, every log that
\* changes gains one record at its end, and as many records are added as
\* save_scraped_page and save_error_to_json are called
AppendOnlyStep ==
    /\ \A filepath \in DOMAIN reports :
          /\ filepath \in DOMAIN reports'
          /\ StartsWith(reports'[filepath], reports[filepath])
    /\ \A filepath \in DOMAIN reports' :
          Len(reports'[filepath]) <= Len(Lines(reports, filepath)) + 1
    /\ \A f \in finished' \ finished :
          TotalRecords(reports') = TotalRecords(reports) + SaveCalls(f)
    /\ finished' = finished => reports' = reports

\* C14: every log is append-only: each call of save_scraped_page or
\* save_error_to_json adds exactly one record at the end of exactly one log,
\* and the earlier contents of every log remain as a prefix of its later
\* contents.
C14_LogsAreAppendOnly == [][AppendOnlyStep]_vars

\* the visits log and the log of the root page each hold two records, in the
\* order in which they were appended
C14_Witness ==
    /\ Len(VisitsLog) = 2
    /\ VisitsLog[1] = [url |-> RootUrl]
    /\ VisitsLog[2] = [url |-> AboutUrl]
    /\ Len(Lines(reports, RootLog)) = 2
    /\ Lines(reports, RootLog)[1].link # Lines(reports, RootLog)[2].link

(* ---------------------------------------------------------------------- *)
(* C15                                                                     *)
(* ---------------------------------------------------------------------- *)

\* the URLs whose host is example.com or one of its subdomains
OnSite == {RootUrl, AboutUrl, BotUrl, ShopUrl}

\* url is one of the links of the sequence
IsLinkOf(url, links) == \E i \in 1..Len(links) : links[i] = url

RejectedByParse(f) ==
    /\ f.outcome.ok
    /\ f.request.callback = "parse"
    /\ ~f.outcome.text
    /\ f.outcome.status # 200

\* the status text of the error record for the one non-200 status that is tried
StatusText(code) == IF code = 204 THEN "status 204" ELSE "status ?"

\* a step in which a response that is not text and whose status is not 200
\* reaches parse: one error record for the request's URL is appended to the log
\* of the origin the request carries, no other error log changes and no
\* request is emitted
RejectedStep ==
    \A f \in finished' \ finished :
        RejectedByParse(f) =>
            /\ pending' = pending
            /\ seen' = seen
            /\ fetches' = fetches
            /\ (ErrorCount(f.request.url))' = ErrorCount(f.request.url) + 1
            /\ Cardinality(ErrorPlaces') = Cardinality(ErrorPlaces) + 1
            /\ \E filepath \in DOMAIN reports' :
                  /\ IsErrorLogOf(filepath, f.request.origin)
                  /\ reports'[filepath] =
                        Append(Lines(reports, filepath),
                               [link |-> f.request.url,
                                status |-> StatusText(f.outcome.status)])

\* C16: a response delivered to parse that is not a text response and whose
\* status is not 200 is treated as failed: exactly one error record
\* {link: request URL, status: "status <code>"} is appended to the log of the
\* origin carried by the request, no link is extracted and no request is
\* emitted.
C16_RejectedResponseIsLogged == [][RejectedStep]_vars

\* the page /about, found on the root page, was answered 204 without text: the
\* log of "/" holds its error record and nothing was emitted for it
C16_Witness ==
    \E f \in finished :
        /\ RejectedByParse(f)
        /\ f.request.url = AboutUrl
        /\ f.request.page = RootUrl
        /\ web = CyclicWeb
        /\ Lines(reports, RootLog) = <<[link |-> AboutUrl, status |-> "status 204"]>>
        /\ \A r \in AllRequests : r.page # AboutUrl

(* ---------------------------------------------------------------------- *)
(* C17                                                                     *)
(* ---------------------------------------------------------------------- *)

\* a step in which every seed that was handed to the downloader is in the
\* duplicate filter, stays there, is not handed to the downloader again, and
\* has at most one visit record
SeedOnceStep ==
    \A s \in Seeds :
        /\ fetches'[s] > 0 => s \in seen'
        /\ s \in seen => (s \in seen' /\ fetches'[s] = fetches[s])
        /\ (VisitCount(s))' <= 1

\* C17: a seed occupies the set of dispatched URLs from the moment it is
\* dispatched: when the same URL is later discovered as a link on a visited
\* page it is not dispatched a second time and no second visit record is
\* written for it.
C17_SeedDispatchedOnce == [][SeedOnceStep]_vars

\* the seed "/" was fetched and parsed, the page /about that links back to it was
\* parsed too, and the crawl is over: one fetch and one visit record for "/"
C17_Witness ==
    /\ Quiescent
    /\ web = CyclicWeb
    /\ start_urls = <<RootUrl>>
    /\ AboutUrl \in ExpandedPages
    /\ IsDiscovered(RootUrl)
    /\ IsFollowed(RootUrl)
    /\ fetches[RootUrl] = 1
    /\ VisitCount(RootUrl) = 1

(* ---------------------------------------------------------------------- *)
(* C18                                                                     *)
(* ---------------------------------------------------------------------- *)

\* C18: dispatch is causally ordered: every request that is not a start request
\* was emitted only after the fetch of the page on which its link was found had
\* completed successfully, so from the moment a request with origin o is
\* emitted the visits log holds a record for a page whose URL path is o.
C18_EmittedAfterPageVisited ==
    \A r \in AllRequests :
        r.page # <<>> =>
            /\ \E f \in Fetched :
                  /\ f.request.url = r.page
                  /\ f.request.callback = "parse"
                  /\ f.outcome.text
            /\ \E i \in 1..Len(VisitsLog) :
                  /\ VisitsLog[i].url = r.page
                  /\ PathOfPage(VisitsLog[i].url) = r.origin

\* the request for /about, found on the page /bot?x=1, waits at the scheduler
\* with origin /bot, and the visits log holds the record of /bot?x=1
C18_Witness ==
    \E i \in 1..Len(pending) :
        /\ pending[i].url = AboutUrl
        /\ pending[i].page = BotUrl
        /\ pending[i].origin = <<"/", "bot">>
        /\ VisitCount(BotUrl) = 1
        /\ fetches[AboutUrl] = 0

(* ---------------------------------------------------------------------- *)
(* C19                                                                     *)
(* ---------------------------------------------------------------------- *)

\* the file holds an error record for url
HasErrorRecord(filepath, url) ==
    \E i \in 1..Len(reports[filepath]) :
        "link" \in DOMAIN reports[filepath][i] /\ reports[filepath][i].link = url

\* C19: error logs are partitioned by origin page: any two error records in the
\* same error log were produced by links discovered on the same page, so
\* failures of links found on two different pages (pages with the same path on
\* two internal hosts, for instance) never share a log.
C19_LogsPartitionedByPage ==
    \A f, g \in ErrorLogged :
        (\E filepath \in DOMAIN reports :
            HasErrorRecord(filepath, f.request.url) /\ HasErrorRecord(filepath, g.request.url))
        => f.request.page = g.request.page

(* ---------------------------------------------------------------------- *)
(* C20                                                                     *)
(* ---------------------------------------------------------------------- *)

\* C20: in every reachable state the number of error records whose link is a
\* given URL, counted over all error logs, is at most one: a request is
\* answered once, through its callback or through its errback, and the answer
\* writes at most one error record.
C20_AtMostOneErrorRecordPerUrl ==
    /\ \A u \in Urls : ErrorCount(u) <= 1
    /\ \A f, g \in finished : f.request.url = g.request.url => f = g
    /\ \A f \in finished : f.request \notin in_flight

\* /about, which two parsed pages link to, has failed and the crawl is over: one
\* error record names it
C20_Witness ==
    /\ Quiescent
    /\ HasFailed(AboutUrl)
    /\ ErrorCount(AboutUrl) = 1
    /\ \E p, q \in ExpandedPages :
          /\ p # q
          /\ IsLinkOf(AboutUrl, web[p])
          /\ IsLinkOf(AboutUrl, web[q])

====
